---- MODULE Spec2Model ----
(***************************************************************************)
(* Model of app.py: the Flask exoplanet-classification service.            *)
(*                                                                         *)
(* State: the process-wide model_cache, the artifact store (the files the  *)
(* registry points at), and, per request-handling thread, the position in  *)
(* predict()/load_model() and the handler's local variables.               *)
(* Flask serves requests on threads, so handlers interleave between any    *)
(* two accesses of shared state (model_cache, the file system).            *)
(***************************************************************************)
EXTENDS Integers, Sequences, FiniteSets, TLC

\* ------------------------------------------------------------------ bounds
NumWorkers == 2        \* request threads of the concurrent specification
MaxRequests == 2       \* requests accepted in one run
MaxRows == 2           \* rows of a request's table
ScoreScale == 2        \* scores are k/ScoreScale, k in 0..ScoreScale

\* ------------------------------------------------------- program constants
\* MODEL_CONFIG: both registered types point at the same two files.
K2ModelFile == "models/k2_logistic_model.joblib"
K2PreprocessorFile == "preprocessors/k2_preprocessor.joblib"

MODEL_CONFIG ==
    [t \in {"kepler", "k2"} |->
        [model |-> K2ModelFile, preprocessor |-> K2PreprocessorFile]]

Locations == {MODEL_CONFIG[t].model : t \in DOMAIN MODEL_CONFIG}
                \cup {MODEL_CONFIG[t].preprocessor : t \in DOMAIN MODEL_CONFIG}

\* request.get_json(): it raises (a body that is not parseable JSON), or it
\* returns the parsed body: a falsy value (None, {}, [], 0, ""), a truthy
\* value that is not a JSON object (a non-empty list or string, a number,
\* true), or an object.
Bodies == {"unparseable", "falsy", "not_an_object", "object"}

\* The strings request_data.get("dataset_type", "") may return ("" is an
\* absent or empty field).
RawDatasetTypes == {"", "kepler", "k2", "tess", "KEPLER", "not_a_real_type"}

\* The value of the dataset_type field: a string s, or a JSON value that is
\* not a string (null, a number, a list, ...), which has no .lower().
Str(s) == [is_str |-> TRUE, str |-> s]
NotAString == [is_str |-> FALSE, str |-> ""]
TypeFields == {Str(s) : s \in RawDatasetTypes} \cup {NotAString}

\* str.lower() on the strings above.
Lower(s) == IF s = "KEPLER" THEN "kepler" ELSE s

\* The per-type exclusion lists, as the Python literals evaluate.  In the k2
\* list the literals "disc_facility" and "disposition" are adjacent with no
\* comma between them, so Python concatenates them into one element.
K2ColsToDrop ==
    {"pl_name", "hostname", "disp_refname", "disc_year", "pl_refname",
     "st_refname", "sy_refname", "rastr", "ra", "decstr", "dec", "rowupdate",
     "pl_pubdate", "releasedate", "discoverymethod", "soltype",
     "disc_facilitydisposition"}

KeplerColsToDrop ==
    {"kepid", "kepoi_name", "kepler_name", "koi_time0bk", "koi_teq_err1",
     "koi_teq_err2", "koi_time0bk_err1", "koi_time0bk_err2",
     "koi_tce_plnt_num", "koi_tce_delivname", "ra", "dec",
     "koi_pdisposition", "koi_score", "koi_disposition"}

TessColsToDrop ==
    {"loc_rowid", "toi", "tid", "rastr", "decstr", "toi_created",
     "rowupdate", "tfopwg_disp"}

\* ------------------------------------------------------------ input domain
\* Column names a request's table may carry.
ColumnNames ==
    {"pl_orbper", "koi_teq_err1", "foo_lim_x", "disposition", "disc_facility"}

\* "lim" in col, on the column names above.
ContainsLim(col) == col \in {"foo_lim_x"}

\* The columns the fitted preprocessor selects by name (the artifact is not
\* part of the repository; transform raises when one of them is missing).
RequiredFeatures == {"pl_orbper"}

\* A row is represented by the score the fitted pipeline assigns to its
\* feature values, in units of 1/ScoreScale.
RowValues == 0..ScoreScale

RowSeqs == UNION {[1..n -> RowValues] : n \in 0..MaxRows}

\* request_data.get("data"): absent (None), a value pandas cannot build a
\* frame from, or a table.  A table of named values (column-oriented mapping
\* or sequence of row mappings) has string column labels; a table given as
\* rows without names (a list of scalars or of lists) gets the integer
\* labels 0..n-1, kept apart in int_columns.
NoData == [kind |-> "none", columns |-> {}, int_columns |-> {}, rows |-> <<>>]
BadData ==
    [kind |-> "malformed", columns |-> {}, int_columns |-> {}, rows |-> <<>>]
Table(cols, rows) ==
    [kind |-> "table", columns |-> cols, int_columns |-> {}, rows |-> rows]
UnnamedTable(n, rows) ==
    [kind |-> "table", columns |-> {}, int_columns |-> 0..(n - 1),
     rows |-> rows]

AllPayloads ==
    {NoData, BadData}
        \cup {Table(c, r) : c \in SUBSET ColumnNames, r \in RowSeqs}
        \cup {UnnamedTable(1, r) : r \in RowSeqs \ {<<>>}}

\* A table the pipeline accepts.
FewPayloads == {Table({"pl_orbper", "foo_lim_x"}, <<1>>)}

\* ------------------------------------------------------------------- state
VARIABLES
    scenario,           \* which requests this run draws: see Workers, Payloads
    store,              \* artifact store: location -> "absent"|"corrupt"|"valid"
    model_cache,        \* dataset type -> bundle, for the types inserted
    pc,                 \* per thread: position in the handler
    dataset_type,       \* per thread: predict's local dataset_type
    data,               \* per thread: predict's local data
    model,              \* per thread: load_model's local model
    preprocessor,       \* per thread: load_model's local preprocessor
    model_components,   \* per thread: what load_model returned
    df,                 \* per thread: predict's local df
    X_processed,        \* per thread: predict's local X_processed
    response,           \* per thread: the response of the finished request
    model_status,       \* per thread: list_models' local model_status
    cached_at_start,    \* history, per thread: the types model_cache held
                        \* when this list_models request began
    dispatch,           \* the output-convention block applied to given inputs
    nrequests,          \* requests accepted so far
    ndeserialized,      \* history: joblib.load calls per (type, part)
    nstore,             \* history, per thread: store accesses of this request
    serial,             \* history, per thread: predict requests taken so far
    returned,           \* history: bundles load_model has returned, per type
    load_failed         \* history: types whose artifacts a load_model call
                        \* failed on (a missing file, joblib.load raising)

vars ==
    <<scenario, store, model_cache, pc, dataset_type, data, model,
      preprocessor, model_components, df, X_processed, response,
      model_status, cached_at_start, dispatch, nrequests, ndeserialized, nstore, serial,
      returned, load_failed>>

shared == <<store, model_cache>>
\* What only list_models changes.
listing == <<model_status, cached_at_start>>

\* What no step of a request handler changes.
config == <<scenario, dispatch>>
history == <<ndeserialized, returned, load_failed>>

\* The request threads and the data of a run: concurrent requests that carry
\* one table, or one request at a time with any data (the third scenario has
\* no request: see InitConvention).
Workers == IF scenario = "concurrent" THEN 1..NumWorkers ELSE {1}
Payloads == IF scenario = "sequential" THEN AllPayloads ELSE FewPayloads

\* ----------------------------------------------------------------- objects
\* A deserialized object: the location it was read from and, standing for
\* its identity, a number that names the request whose joblib.load built it,
\* the serial[w]-th of thread w (every joblib.load builds a new object; a
\* request loads a location at most once).
NoObject == [loc |-> "", id |-> 0]
NoBundle == [model |-> NoObject, preprocessor |-> NoObject]
NoFrame == [columns |-> {}, int_columns |-> {}, rows |-> <<>>]
Parts == {"model", "preprocessor"}

Deserialize(loc, w) ==
    [loc |-> loc, id |-> (serial[w] - 1) * NumWorkers + w]

\* ---------------------------------------------------------------- responses
NoStatus == [t \in {} |-> [model_exists |-> FALSE,
                            preprocessor_exists |-> FALSE, cached |-> FALSE]]

NoResponse ==
    [status |-> 0, error |-> "", hint |-> "", predictions |-> <<>>,
     probabilities |-> <<>>, num_samples |-> 0, model_status |-> NoStatus,
     route |-> ""]

ErrorResponse(code, msg) ==
    [NoResponse EXCEPT !.status = code, !.error = msg, !.route = "/predict"]

\* -------------------------------------------------------------------- Init
EmptyCache == [t \in {} |-> NoBundle]

InitThreads ==
    /\ pc = [w \in Workers |-> "idle"]
    /\ dataset_type = [w \in Workers |-> ""]
    /\ data = [w \in Workers |-> NoData]
    /\ model = [w \in Workers |-> NoObject]
    /\ preprocessor = [w \in Workers |-> NoObject]
    /\ model_components = [w \in Workers |-> NoBundle]
    /\ df = [w \in Workers |-> NoFrame]
    /\ X_processed = [w \in Workers |-> <<>>]
    /\ response = [w \in Workers |-> NoResponse]
    /\ model_status = [w \in Workers |-> NoStatus]
    /\ cached_at_start = [w \in Workers |-> {}]
    /\ nstore = [w \in Workers |-> 0]
    /\ serial = [w \in Workers |-> 0]

InitShared ==
    /\ store \in [Locations -> {"absent", "corrupt", "valid"}]
    /\ model_cache = EmptyCache
    /\ ndeserialized = [k \in (DOMAIN MODEL_CONFIG) \X Parts |-> 0]
    /\ returned = [t \in DOMAIN MODEL_CONFIG |-> {}]
    /\ load_failed = {}

\* The output-convention block is not under evaluation.
NoDispatch ==
    [stage |-> "none", dataset_type |-> "", X_processed |-> <<>>,
     predictions |-> <<>>, probabilities |-> <<>>]

\* Concurrent requests, one table.
Init ==
    /\ scenario = "concurrent"
    /\ dispatch = NoDispatch
    /\ nrequests = 0
    /\ InitShared
    /\ InitThreads

\* One request at a time, every data value.
InitSeq ==
    /\ scenario = "sequential"
    /\ dispatch = NoDispatch
    /\ nrequests = 0
    /\ InitShared
    /\ InitThreads

\* ------------------------------------------------------- finishing a request
\* predict returns a response: `return jsonify(...), code`.
Finish(w, r) ==
    /\ pc' = [pc EXCEPT ![w] = "done"]
    /\ response' = [response EXCEPT ![w] = r]

\* A load_model call of thread w fails (raises).
LoadFails(w, r) ==
    /\ Finish(w, r)
    /\ load_failed' = load_failed \cup {dataset_type[w]}

\* How predict answers an exception raised by joblib.load: ValueError and
\* FileNotFoundError have their own handlers around the load_model call,
\* anything else reaches the outermost handler.
LoadExceptionResponse(exc) ==
    IF exc = "ValueError" THEN ErrorResponse(400, "deserialization ValueError")
    ELSE IF exc = "FileNotFoundError"
        THEN ErrorResponse(500, "No such file or directory")
    ELSE ErrorResponse(500, "Internal server error: deserialization failed")

\* ------------------------------------------------------------------ predict
\* predict, lines 101-119: parse the request and check its two fields.
\* get_json raising is answered by the inner handler (lines 105-106); a body
\* without .get and a dataset_type without .lower raise AttributeError at
\* line 111, which the outermost handler answers (lines 198-200).
PredictStart(w) ==
    /\ pc[w] = "idle"
    /\ nrequests < MaxRequests
    /\ nrequests' = nrequests + 1
    /\ serial' = [serial EXCEPT ![w] = @ + 1]
    /\ \E body \in Bodies, raw \in TypeFields, d \in Payloads :
        IF body = "unparseable"
        THEN /\ Finish(w, ErrorResponse(400, "Invalid JSON"))
             /\ UNCHANGED <<dataset_type, data>>
        ELSE IF body = "falsy"
        THEN /\ Finish(w, ErrorResponse(400, "No JSON data provided"))
             /\ UNCHANGED <<dataset_type, data>>
        ELSE IF body = "not_an_object"
        THEN /\ Finish(w, ErrorResponse(500,
                           "Internal server error: no attribute 'get'"))
             /\ UNCHANGED <<dataset_type, data>>
        ELSE IF ~raw.is_str
        THEN /\ Finish(w, ErrorResponse(500,
                           "Internal server error: no attribute 'lower'"))
             /\ UNCHANGED <<dataset_type, data>>
        ELSE /\ dataset_type' = [dataset_type EXCEPT ![w] = Lower(raw.str)]
             /\ data' = [data EXCEPT ![w] = d]
             /\ IF Lower(raw.str) = ""
                THEN Finish(w, ErrorResponse(400, "Missing 'dataset_type' field"))
                ELSE IF d.kind = "none"
                THEN Finish(w, ErrorResponse(400, "Missing 'data' field"))
                ELSE /\ pc' = [pc EXCEPT ![w] = "load_model"]
                     /\ UNCHANGED response
    /\ UNCHANGED <<config, listing, shared, model, preprocessor,
                   model_components, df, X_processed, ndeserialized, nstore,
                   returned, load_failed>>

\* --------------------------------------------------------------- load_model
\* Variant: the ValueError is answered as a server error.
UnknownTypeResponse500 == ErrorResponse(500, "Unknown dataset type")

\* load_model raises ValueError for an unregistered type (line 36) and predict
\* answers it with status 400 (lines 124-125).
UnknownTypeResponse == ErrorResponse(400, "Unknown dataset type")

\* dataset_type in model_cache
CacheHit(t) == t \in DOMAIN model_cache

\* load_model returns the bundle b to predict.
Return(w, b) ==
    /\ model_components' = [model_components EXCEPT ![w] = b]
    /\ returned' = [returned EXCEPT ![dataset_type[w]] = @ \cup {b}]
    /\ pc' = [pc EXCEPT ![w] = "to_dataframe"]

\* Variant: an unregistered type is not rejected and the request goes on.
LoadModelCheckLenient(w) ==
    /\ pc[w] = "load_model"
    /\ IF dataset_type[w] \notin DOMAIN MODEL_CONFIG
       THEN /\ pc' = [pc EXCEPT ![w] = "to_dataframe"]
            /\ UNCHANGED <<model_components, returned, response>>
       ELSE IF CacheHit(dataset_type[w])
       THEN /\ pc' = [pc EXCEPT ![w] = "cache_hit"]
            /\ UNCHANGED <<model_components, returned, response>>
       ELSE /\ pc' = [pc EXCEPT ![w] = "exists_model"]
            /\ UNCHANGED <<model_components, returned, response>>
    /\ UNCHANGED <<config, listing, serial, shared, dataset_type, data,
                   model, preprocessor, df, X_processed, nrequests,
                   ndeserialized, nstore, load_failed>>

\* load_model, lines 35-39: the registry check and the membership test of
\* the cache lookup.
LoadModelCheck(w) ==
    /\ pc[w] = "load_model"
    /\ IF dataset_type[w] \notin DOMAIN MODEL_CONFIG
       THEN /\ Finish(w, UnknownTypeResponse)
            /\ UNCHANGED <<model_components, returned>>
       ELSE IF CacheHit(dataset_type[w])
       THEN /\ pc' = [pc EXCEPT ![w] = "cache_hit"]
            /\ UNCHANGED <<model_components, returned, response>>
       ELSE /\ pc' = [pc EXCEPT ![w] = "exists_model"]
            /\ UNCHANGED <<model_components, returned, response>>
    /\ UNCHANGED <<config, listing, serial, shared, dataset_type, data,
                   model, preprocessor, df, X_processed, nrequests,
                   ndeserialized, nstore, load_failed>>

\* load_model, lines 40-41, after the membership test succeeded: a second
\* read of model_cache, which returns the entry the cache holds by then.
CacheHitReturn(w) ==
    /\ pc[w] = "cache_hit"
    /\ Return(w, model_cache[dataset_type[w]])
    /\ UNCHANGED <<config, listing, serial, shared, dataset_type, data,
                   model, preprocessor, df, X_processed, response, nrequests,
                   ndeserialized, nstore, load_failed>>

\* os.path.exists(loc)
Exists(loc) == store[loc] # "absent"

\* load_model, lines 46-47.
ExistsModel(w) ==
    /\ pc[w] = "exists_model"
    /\ nstore' = [nstore EXCEPT ![w] = @ + 1]
    /\ IF Exists(MODEL_CONFIG[dataset_type[w]].model)
       THEN /\ pc' = [pc EXCEPT ![w] = "exists_preprocessor"]
            /\ UNCHANGED <<response, load_failed>>
       ELSE LoadFails(w, ErrorResponse(500, "Model file not found"))
    /\ UNCHANGED <<config, listing, serial, shared, dataset_type, data,
                   model, preprocessor, model_components, df, X_processed,
                   nrequests, ndeserialized, returned>>

\* load_model, lines 48-49.
ExistsPreprocessor(w) ==
    /\ pc[w] = "exists_preprocessor"
    /\ nstore' = [nstore EXCEPT ![w] = @ + 1]
    /\ IF Exists(MODEL_CONFIG[dataset_type[w]].preprocessor)
       THEN /\ pc' = [pc EXCEPT ![w] = "load_model_file"]
            /\ UNCHANGED <<response, load_failed>>
       ELSE LoadFails(w, ErrorResponse(500, "Preprocessor file not found"))
    /\ UNCHANGED <<config, listing, serial, shared, dataset_type, data,
                   model, preprocessor, model_components, df, X_processed,
                   nrequests, ndeserialized, returned>>

\* Variant: the model object is stored under both keys.
NewBundleModelTwice(m, p) == [model |-> m, preprocessor |-> m]

\* The dict literal of lines 56-59.
NewBundle(m, p) == [model |-> m, preprocessor |-> p]

\* model_cache[t] = b
CachePut(cache, t, b) ==
    [x \in DOMAIN cache \cup {t} |-> IF x = t THEN b ELSE cache[x]]

\* The exceptions joblib.load can raise on the file at loc.  A file that is
\* there but cannot be loaded raises ValueError, FileNotFoundError (a dump in
\* several files, one of which is missing) or another exception.
LoadExceptions(loc) ==
    IF store[loc] = "valid" THEN {}
    ELSE IF store[loc] = "absent" THEN {"FileNotFoundError"}
    ELSE {"ValueError", "FileNotFoundError", "Exception"}

\* Variant: the cache entry is created as soon as the model is loaded, before
\* the preprocessor is.
LoadModelFileCachingEarly(w) ==
    LET t == dataset_type[w]
        loc == MODEL_CONFIG[t].model
    IN  /\ pc[w] = "load_model_file"
        /\ nstore' = [nstore EXCEPT ![w] = @ + 1]
        /\ IF LoadExceptions(loc) = {}
           THEN /\ model' = [model EXCEPT ![w] = Deserialize(loc, w)]
                /\ model_cache' =
                       CachePut(model_cache, t, NewBundle(Deserialize(loc, w), NoObject))
                /\ ndeserialized' =
                       [ndeserialized EXCEPT ![<<t, "model">>] = @ + 1]
                /\ pc' = [pc EXCEPT ![w] = "load_preprocessor_file"]
                /\ UNCHANGED <<response, load_failed>>
           ELSE /\ \E exc \in LoadExceptions(loc) :
                       LoadFails(w, LoadExceptionResponse(exc))
                /\ UNCHANGED <<model, ndeserialized, model_cache>>
        /\ UNCHANGED <<config, listing, serial, store, dataset_type,
                       data, preprocessor, model_components, df, X_processed,
                       nrequests, returned>>

\* load_model, line 52: model = joblib.load(config["model"]).
LoadModelFile(w) ==
    LET t == dataset_type[w]
        loc == MODEL_CONFIG[t].model
    IN  /\ pc[w] = "load_model_file"
        /\ nstore' = [nstore EXCEPT ![w] = @ + 1]
        /\ IF LoadExceptions(loc) = {}
           THEN /\ model' = [model EXCEPT ![w] = Deserialize(loc, w)]
                /\ ndeserialized' =
                       [ndeserialized EXCEPT ![<<t, "model">>] = @ + 1]
                /\ pc' = [pc EXCEPT ![w] = "load_preprocessor_file"]
                /\ UNCHANGED <<response, load_failed>>
           ELSE /\ \E exc \in LoadExceptions(loc) :
                       LoadFails(w, LoadExceptionResponse(exc))
                /\ UNCHANGED <<model, ndeserialized>>
        /\ UNCHANGED <<config, listing, serial, shared, dataset_type,
                       data, preprocessor, model_components, df, X_processed,
                       nrequests, returned>>

\* load_model, line 53: preprocessor = joblib.load(config["preprocessor"]).
LoadPreprocessorFile(w) ==
    LET t == dataset_type[w]
        loc == MODEL_CONFIG[t].preprocessor
    IN  /\ pc[w] = "load_preprocessor_file"
        /\ nstore' = [nstore EXCEPT ![w] = @ + 1]
        /\ IF LoadExceptions(loc) = {}
           THEN /\ preprocessor' = [preprocessor EXCEPT ![w] = Deserialize(loc, w)]
                /\ ndeserialized' =
                       [ndeserialized EXCEPT ![<<t, "preprocessor">>] = @ + 1]
                /\ pc' = [pc EXCEPT ![w] = "cache_insert"]
                /\ UNCHANGED <<response, load_failed>>
           ELSE /\ \E exc \in LoadExceptions(loc) :
                       LoadFails(w, LoadExceptionResponse(exc))
                /\ UNCHANGED <<preprocessor, ndeserialized>>
        /\ UNCHANGED <<config, listing, serial, shared, dataset_type,
                       data, model, model_components, df, X_processed,
                       nrequests, returned>>

\* load_model, lines 56-59: model_cache[dataset_type] = {...}.
CacheInsert(w) ==
    /\ pc[w] = "cache_insert"
    /\ model_cache' =
           CachePut(model_cache, dataset_type[w],
                    NewBundle(model[w], preprocessor[w]))
    /\ pc' = [pc EXCEPT ![w] = "cache_return"]
    /\ UNCHANGED <<config, listing, serial, store, dataset_type, data,
                   model, preprocessor, model_components, df, X_processed,
                   response, nrequests, ndeserialized, nstore, returned,
                   load_failed>>

\* load_model, line 61: return model_cache[dataset_type].
CacheReturn(w) ==
    /\ pc[w] = "cache_return"
    /\ Return(w, model_cache[dataset_type[w]])
    /\ UNCHANGED <<config, listing, serial, shared, dataset_type, data,
                   model, preprocessor, df, X_processed, response, nrequests,
                   ndeserialized, nstore, load_failed>>

\* ----------------------------------------------------- predict, after load
\* df.empty: no rows or no columns.
Empty(frame) ==
    \/ frame.columns = {} /\ frame.int_columns = {}
    \/ Len(frame.rows) = 0

\* predict, lines 129-139: pd.DataFrame(data), which raises or binds df, and
\* the empty check on df.
ToDataFrame(w) ==
    /\ pc[w] = "to_dataframe"
    /\ IF data[w].kind # "table"
       THEN /\ Finish(w, ErrorResponse(400, "Failed to convert data to DataFrame"))
            /\ UNCHANGED df
       ELSE /\ df' = [df EXCEPT ![w] = [columns |-> data[w].columns,
                                        int_columns |-> data[w].int_columns,
                                        rows |-> data[w].rows]]
            /\ IF Empty(data[w])
               THEN Finish(w, ErrorResponse(400, "Empty dataset provided"))
               ELSE /\ pc' = [pc EXCEPT ![w] = "drop_columns"]
                    /\ UNCHANGED response
    /\ UNCHANGED <<config, listing, serial, shared, dataset_type, data,
                   model, preprocessor, model_components, X_processed,
                   nrequests, nstore, history>>

\* The if/elif chain of lines 140-158 binds cols_to_drop for these types only.
HasSchemaRule(t) == t \in {"k2", "kepler", "tess"}

FixedColsToDrop(t) ==
    IF t = "k2" THEN K2ColsToDrop
    ELSE IF t = "kepler" THEN KeplerColsToDrop
    ELSE TessColsToDrop

\* Variant: line 159 is missing.
ColsToDropFixedOnly(t, columns) == FixedColsToDrop(t)

\* cols_to_drop after line 159.
ColsToDrop(t, columns) ==
    FixedColsToDrop(t) \cup {col \in columns : ContainsLim(col)}

\* Variant: the frame is also deduplicated, which removes rows.
DropAndDeduplicate(frame, cols) ==
    [columns |-> frame.columns \ cols,
     int_columns |-> frame.int_columns,
     rows |-> IF Len(frame.rows) > 1 /\ frame.rows[1] = frame.rows[2]
              THEN Tail(frame.rows) ELSE frame.rows]

\* df.drop(columns=cols, errors='ignore')
Drop(frame, cols) ==
    [columns |-> frame.columns \ cols,
     int_columns |-> frame.int_columns,
     rows |-> frame.rows]

\* `"lim" in col` raises TypeError on a column label that is an integer.
LimTestRaises(frame) == frame.int_columns # {}

\* predict, lines 140-161.  With no branch taken, line 159 raises
\* UnboundLocalError; with a branch taken, the comprehension of line 159
\* raises TypeError on an integer label.  The outermost handler answers both.
DropColumns(w) ==
    /\ pc[w] = "drop_columns"
    /\ IF ~HasSchemaRule(dataset_type[w])
       THEN /\ Finish(w, ErrorResponse(500, "Internal server error: cols_to_drop unbound"))
            /\ UNCHANGED df
       ELSE IF LimTestRaises(df[w])
       THEN /\ Finish(w, ErrorResponse(500, "Internal server error: argument of type 'int' is not iterable"))
            /\ UNCHANGED df
       ELSE /\ df' = [df EXCEPT ![w] =
                         Drop(@, ColsToDrop(dataset_type[w], @.columns))]
            /\ pc' = [pc EXCEPT ![w] = "transform"]
            /\ UNCHANGED response
    /\ UNCHANGED <<config, listing, serial, shared, dataset_type, data,
                   model, preprocessor, model_components, X_processed,
                   nrequests, nstore, history>>

\* preprocessor.transform(frame) raises when a fitted column is missing.
TransformRaises(frame) == ~(RequiredFeatures \subseteq frame.columns)

\* preprocessor.transform(frame): one output row per input row, in order.
Transformed(frame) == frame.rows

\* predict, lines 166-172.
Transform(w) ==
    /\ pc[w] = "transform"
    /\ IF TransformRaises(df[w])
       THEN /\ Finish(w, [ErrorResponse(400, "Preprocessing failed") EXCEPT
                             !.hint = "Check that all required features are present"])
            /\ UNCHANGED X_processed
       ELSE /\ X_processed' = [X_processed EXCEPT ![w] = Transformed(df[w])]
            /\ pc' = [pc EXCEPT ![w] = "invoke_model"]
            /\ UNCHANGED response
    /\ UNCHANGED <<config, listing, serial, shared, dataset_type, data,
                   model, preprocessor, model_components, df, nrequests,
                   nstore, history>>

\* The classifier on one row: predict_proba(X)[:, 0] is the score of the
\* class at index 0, predict(X) the class with the larger score.
ClassifierProba0(v) == v
ClassifierPredict(v) == IF 2 * v >= ScoreScale THEN 0 ELSE 1

\* The regressor on one row: predict(X) is the score.
RegressorPredict(v) == v

\* Variant: a strict comparison.
ThresholdLabelStrict(p) == IF 2 * p > ScoreScale THEN 1 ELSE 0

\* (probabilities >= 0.5).astype(int), on one score in units of 1/ScoreScale.
ThresholdLabel(p) == IF 2 * p >= ScoreScale THEN 1 ELSE 0

\* Lines 176-182: the two output conventions.
Predictions(t, X) ==
    IF t \in {"k2", "kepler"}
    THEN [i \in 1..Len(X) |-> ClassifierPredict(X[i])]
    ELSE [i \in 1..Len(X) |-> ThresholdLabel(RegressorPredict(X[i]))]

Probabilities(t, X) ==
    IF t \in {"k2", "kepler"}
    THEN [i \in 1..Len(X) |-> ClassifierProba0(X[i])]
    ELSE [i \in 1..Len(X) |-> RegressorPredict(X[i])]

\* Lines 187-192.
SuccessResponse(predictions, probabilities) ==
    [NoResponse EXCEPT !.status = 200, !.route = "/predict",
                       !.predictions = predictions,
                       !.probabilities = probabilities,
                       !.num_samples = Len(predictions)]

\* predict, lines 175-196: the model call (which may raise) and the response.
InvokeModel(w) ==
    /\ pc[w] = "invoke_model"
    /\ \E raises \in BOOLEAN :
        IF raises
        THEN Finish(w, ErrorResponse(500, "Prediction failed"))
        ELSE Finish(w, SuccessResponse(
                           Predictions(dataset_type[w], X_processed[w]),
                           Probabilities(dataset_type[w], X_processed[w])))
    /\ UNCHANGED <<config, listing, serial, shared, dataset_type, data,
                   model, preprocessor, model_components, df, X_processed,
                   nrequests, nstore, history>>

\* The handler has returned: the thread is free for the next request.
Respond(w) ==
    /\ pc[w] = "done"
    /\ pc' = [pc EXCEPT ![w] = "idle"]
    /\ dataset_type' = [dataset_type EXCEPT ![w] = ""]
    /\ data' = [data EXCEPT ![w] = NoData]
    /\ model' = [model EXCEPT ![w] = NoObject]
    /\ preprocessor' = [preprocessor EXCEPT ![w] = NoObject]
    /\ model_components' = [model_components EXCEPT ![w] = NoBundle]
    /\ df' = [df EXCEPT ![w] = NoFrame]
    /\ X_processed' = [X_processed EXCEPT ![w] = <<>>]
    /\ response' = [response EXCEPT ![w] = NoResponse]
    /\ model_status' = [model_status EXCEPT ![w] = NoStatus]
    /\ cached_at_start' = [cached_at_start EXCEPT ![w] = {}]
    /\ nstore' = [nstore EXCEPT ![w] = 0]
    /\ UNCHANGED <<config, shared, nrequests, serial, history>>

\* -------------------------------------------------------------- list_models
\* MODEL_CONFIG.items(): the registered types, in insertion order.
ConfigOrder == <<"kepler", "k2">>

\* model_status[t] = e
StatusPut(status, t, e) ==
    [x \in DOMAIN status \cup {t} |-> IF x = t THEN e ELSE status[x]]

\* Variant: "cached" reports whether the model file exists.
CachedFromFile(t) == Exists(MODEL_CONFIG[t].model)

\* list_models, line 212: dataset_type in model_cache.
Cached(t) == t \in DOMAIN model_cache

\* list_models, lines 206-208: model_status = {} and the first iteration of
\* the loop, whose variable is the handler's local dataset_type.
ListModels(w) ==
    /\ pc[w] = "idle"
    /\ nrequests < MaxRequests
    /\ nrequests' = nrequests + 1
    /\ model_status' = [model_status EXCEPT ![w] = NoStatus]
    /\ cached_at_start' = [cached_at_start EXCEPT ![w] = DOMAIN model_cache]
    /\ dataset_type' = [dataset_type EXCEPT ![w] = ConfigOrder[1]]
    /\ pc' = [pc EXCEPT ![w] = "list_model_exists"]
    /\ UNCHANGED <<config, shared, data, model, preprocessor, model_components,
                   df, X_processed, response, nstore, serial, history>>

\* list_models, line 210: os.path.exists(config["model"]).  The values of the
\* dict literal of lines 209-213 are evaluated one after the other; they are
\* kept in the entry of model_status that the literal is assigned to.
ListModelExists(w) ==
    LET t == dataset_type[w]
    IN  /\ pc[w] = "list_model_exists"
        /\ nstore' = [nstore EXCEPT ![w] = @ + 1]
        /\ model_status' = [model_status EXCEPT ![w] =
               StatusPut(@, t, [model_exists |-> Exists(MODEL_CONFIG[t].model),
                               preprocessor_exists |-> FALSE,
                               cached |-> FALSE])]
        /\ pc' = [pc EXCEPT ![w] = "list_preprocessor_exists"]
        /\ UNCHANGED <<config, shared, dataset_type, data, model, preprocessor,
                       model_components, df, X_processed, response, nrequests,
                       serial, cached_at_start, history>>

\* list_models, line 211: os.path.exists(config["preprocessor"]).
ListPreprocessorExists(w) ==
    LET t == dataset_type[w]
    IN  /\ pc[w] = "list_preprocessor_exists"
        /\ nstore' = [nstore EXCEPT ![w] = @ + 1]
        /\ model_status' = [model_status EXCEPT ![w][t].preprocessor_exists =
               Exists(MODEL_CONFIG[t].preprocessor)]
        /\ pc' = [pc EXCEPT ![w] = "list_cached"]
        /\ UNCHANGED <<config, shared, dataset_type, data, model, preprocessor,
                       model_components, df, X_processed, response, nrequests,
                       serial, cached_at_start, history>>

\* list_models, lines 212-215: dataset_type in model_cache, then the next
\* iteration or, after the last one, the response.
ListCached(w) ==
    LET t == dataset_type[w]
        status == [model_status[w] EXCEPT ![t].cached = Cached(t)]
    IN  /\ pc[w] = "list_cached"
        /\ model_status' = [model_status EXCEPT ![w] = status]
        /\ IF t = ConfigOrder[Len(ConfigOrder)]
           THEN /\ Finish(w, [NoResponse EXCEPT !.status = 200,
                                                !.route = "/models",
                                                !.model_status = status])
                /\ UNCHANGED dataset_type
           ELSE /\ dataset_type' = [dataset_type EXCEPT ![w] =
                       ConfigOrder[1 + CHOOSE i \in 1..Len(ConfigOrder) :
                                           ConfigOrder[i] = t]]
                /\ pc' = [pc EXCEPT ![w] = "list_model_exists"]
                /\ UNCHANGED response
        /\ UNCHANGED <<config, shared, data, model, preprocessor,
                       model_components, df, X_processed, nrequests, nstore,
                       serial, cached_at_start, history>>

\* ------------------------------------------------------------- environment
\* An operator repairs the artifact store: a missing or unreadable file is
\* replaced by a valid one.
RepairStore ==
    /\ \E loc \in Locations :
        /\ store[loc] # "valid"
        /\ store' = [store EXCEPT ![loc] = "valid"]
    /\ UNCHANGED <<config, listing, serial, model_cache, pc,
                   dataset_type, data, model, preprocessor, model_components,
                   df, X_processed, response, nrequests, nstore, history>>

\* -------------------------------------------------------------------- Next
Next ==
    \/ \E w \in Workers : PredictStart(w)
    \/ \E w \in Workers : LoadModelCheck(w)
    \/ \E w \in Workers : CacheHitReturn(w)
    \/ \E w \in Workers : ExistsModel(w)
    \/ \E w \in Workers : ExistsPreprocessor(w)
    \/ \E w \in Workers : LoadModelFile(w)
    \/ \E w \in Workers : LoadPreprocessorFile(w)
    \/ \E w \in Workers : CacheInsert(w)
    \/ \E w \in Workers : CacheReturn(w)
    \/ \E w \in Workers : ToDataFrame(w)
    \/ \E w \in Workers : DropColumns(w)
    \/ \E w \in Workers : Transform(w)
    \/ \E w \in Workers : InvokeModel(w)
    \/ \E w \in Workers : Respond(w)
    \/ \E w \in Workers : ListModels(w)
    \/ \E w \in Workers : ListModelExists(w)
    \/ \E w \in Workers : ListPreprocessorExists(w)
    \/ \E w \in Workers : ListCached(w)
    \/ RepairStore

Spec == Init /\ [][Next]_vars

SpecSeq == InitSeq /\ [][Next]_vars

\* ------------------------------------------ the output-convention block
\* Lines 176-182 as a function of dataset_type and X_processed, apart from
\* the requests of the program: no request is in flight, the inputs are drawn
\* from the strings and row sequences below, and one step applies the block.
ConventionTypes == {"kepler", "k2", "tess", "not_a_real_type"}

InitConvention ==
    /\ scenario = "function"
    /\ nrequests = 0
    /\ InitShared
    /\ InitThreads
    /\ \E t \in ConventionTypes, X \in RowSeqs \ {<<>>} :
           dispatch = [NoDispatch EXCEPT !.stage = "input", !.dataset_type = t,
                                        !.X_processed = X]

\* Lines 175-184: the block returns predictions and probabilities, or the
\* model call raises.
OutputConvention ==
    /\ dispatch.stage = "input"
    /\ \E raises \in BOOLEAN :
        dispatch' =
            IF raises
            THEN [dispatch EXCEPT !.stage = "raised"]
            ELSE [dispatch EXCEPT
                     !.stage = "returned",
                     !.predictions =
                         Predictions(dispatch.dataset_type, dispatch.X_processed),
                     !.probabilities =
                         Probabilities(dispatch.dataset_type, dispatch.X_processed)]
    /\ UNCHANGED <<scenario, shared, pc, dataset_type, data, model,
                   preprocessor, model_components, df, X_processed, response,
                   listing, nrequests, nstore, serial, history>>

SpecConvention == InitConvention /\ [][OutputConvention]_vars

\* ================================================================== claims
Registered(t) == t \in DOMAIN MODEL_CONFIG

\* Positions inside load_model after a cache miss, up to the second load.
LoadPhase ==
    {"exists_model", "exists_preprocessor", "load_model_file",
     "load_preprocessor_file"}

\* Positions of predict after load_model has returned.
AfterLoad == {"to_dataframe", "drop_columns", "transform", "invoke_model"}

\* Thread w is the one taking the step.
Acts(w) == pc'[w] # pc[w]

\* b holds a deserialized model and a deserialized preprocessor, read from
\* the locations registered for t.
FullBundle(t, b) ==
    /\ b.model.id > 0
    /\ b.preprocessor.id > 0
    /\ b.model.loc = MODEL_CONFIG[t].model
    /\ b.preprocessor.loc = MODEL_CONFIG[t].preprocessor

StoreValid == \A loc \in Locations : store[loc] = "valid"

\* Thread w has answered a predict request that carried both fields.
Answered(w) ==
    /\ pc[w] = "done"
    /\ response[w].route = "/predict"
    /\ dataset_type[w] # ""
    /\ data[w].kind # "none"

\* C1: with valid artifacts and no failed load, the artifacts of a type are
\* deserialized at most once, however load_model calls interleave.
C1_DeserializedAtMostOnce ==
    (StoreValid /\ load_failed = {}) =>
        \A t \in DOMAIN MODEL_CONFIG, part \in Parts :
            ndeserialized[<<t, part>>] <= 1

\* C2: all successful load_model(t) calls return the same bundle object.
C2_OneBundlePerType ==
    \A t \in DOMAIN MODEL_CONFIG : Cardinality(returned[t]) <= 1

\* C3: a load_model(t) call that fails leaves model_cache unchanged and
\* without an entry for t, and fails only while an artifact of t is not valid;
\* a call for such a t that returns has the full bundle cached.
C3_FailedLoadLeavesNoEntry ==
    /\ [][\A w \in Workers :
            (pc[w] \in LoadPhase /\ pc'[w] = "done") =>
                /\ model_cache' = model_cache
                /\ dataset_type[w] \notin DOMAIN model_cache'
                /\ \/ store[MODEL_CONFIG[dataset_type[w]].model] # "valid"
                   \/ store[MODEL_CONFIG[dataset_type[w]].preprocessor] # "valid"
         ]_vars
    /\ [](\A w \in Workers :
            (pc[w] \in AfterLoad /\ dataset_type[w] \in load_failed) =>
                /\ dataset_type[w] \in DOMAIN model_cache
                /\ FullBundle(dataset_type[w], model_cache[dataset_type[w]])
                /\ FullBundle(dataset_type[w], model_components[w]))

\* C3 witness: a load of t failed, and a later call has returned the cached
\* full bundle.
C3_Witness ==
    \E w \in Workers :
        /\ pc[w] = "to_dataframe"
        /\ dataset_type[w] \in load_failed
        /\ dataset_type[w] \in DOMAIN model_cache
        /\ model_components[w] = model_cache[dataset_type[w]]

\* A predict request of thread w whose dataset_type is not registered.
UnknownTypeRequest(w) ==
    /\ pc[w] \notin {"idle"}
    /\ response[w].route # "/models"
    /\ dataset_type[w] # ""
    /\ ~Registered(dataset_type[w])
    /\ data[w].kind # "none"

\* C4: a predict request with an unregistered dataset_type is answered with
\* the unknown-type client error, makes no artifact-store access, goes no
\* further than load_model, and its steps leave model_cache and the store
\* unchanged.
C4_UnknownTypeRejected ==
    /\ [](\A w \in Workers :
            UnknownTypeRequest(w) =>
                /\ pc[w] \in {"load_model", "done"}
                /\ nstore[w] = 0
                /\ pc[w] = "done" =>
                       /\ response[w].status = 400
                       /\ response[w].error = "Unknown dataset type")
    /\ [][\A w \in Workers :
            (Acts(w) /\ UnknownTypeRequest(w)') =>
                (model_cache' = model_cache /\ store' = store)]_vars

\* C4 witness: an unregistered type has been answered while the cache holds
\* an entry.
C4_Witness ==
    \E w \in Workers :
        /\ UnknownTypeRequest(w)
        /\ pc[w] = "done"
        /\ dataset_type[w] = "tess"
        /\ data[w].kind = "table"
        /\ model_cache # EmptyCache

\* C5: for a registered type, a request whose data has zero rows is answered
\* with the empty-dataset client error, whatever the store and the cache.
C5_EmptyBatchIsSchemaError ==
    \A w \in Workers :
        (/\ Answered(w)
         /\ Registered(dataset_type[w])
         /\ data[w].kind = "table"
         /\ Len(data[w].rows) = 0) =>
            /\ response[w].status = 400
            /\ response[w].error = "Empty dataset provided"

\* The columns of the payload that survive pruning for type t.
Pruned(t, d) ==
    {c \in d.columns : c \notin FixedColsToDrop(t) /\ ~ContainsLim(c)}

\* C6: for every type with a schema rule, a request with a non-empty table
\* of named columns whose pruned batch lacks a required feature is answered
\* with the preprocessing client error and its hint (no load of the type has
\* failed).
C6_PreprocessErrorForSchemaTypes ==
    \A w \in Workers :
        (/\ Answered(w)
         /\ HasSchemaRule(dataset_type[w])
         /\ dataset_type[w] \notin load_failed
         /\ data[w].kind = "table"
         /\ ~Empty(data[w])
         /\ data[w].int_columns = {}
         /\ ~(RequiredFeatures \subseteq Pruned(dataset_type[w], data[w]))) =>
            /\ response[w].status = 400
            /\ response[w].error = "Preprocessing failed"
            /\ response[w].hint = "Check that all required features are present"

\* C7: the columns handed to preprocessor.transform are the columns of the
\* batch minus the type's exclusion list and minus every column containing
\* the marker; for kepler "koi_teq_err1" and "foo_lim_x" go and nothing else
\* of the batch does; pruning a batch of named columns never ends the request
\* with an error.
C7_PrunedColumns ==
    \A w \in Workers :
        /\ pc[w] = "transform" =>
            /\ df[w].columns \subseteq data[w].columns
            /\ \A c \in data[w].columns :
                   c \in df[w].columns <=>
                       /\ ~ContainsLim(c)
                       /\ dataset_type[w] = "kepler" => c \notin KeplerColsToDrop
                       /\ dataset_type[w] = "k2" => c \notin K2ColsToDrop
            /\ dataset_type[w] = "kepler" =>
                   /\ "koi_teq_err1" \notin df[w].columns
                   /\ "foo_lim_x" \notin df[w].columns
                   /\ data[w].columns \ df[w].columns
                          \subseteq {"koi_teq_err1", "foo_lim_x"}
        /\ (/\ Answered(w)
            /\ Registered(dataset_type[w])
            /\ data[w].int_columns = {}) =>
               response[w].error \notin
                   {"Internal server error: cols_to_drop unbound",
                    "Internal server error: argument of type 'int' is not iterable"}

\* C7 witness: a kepler batch with both extra columns, and without other
\* listed columns, stands pruned before transform.
C7_Witness ==
    \E w \in Workers :
        /\ pc[w] = "transform"
        /\ dataset_type[w] = "kepler"
        /\ data[w].columns = {"pl_orbper", "koi_teq_err1", "foo_lim_x", "disposition"}
        /\ df[w].columns = {"pl_orbper", "disposition"}

\* C8: every cache entry, every bundle load_model has returned and every
\* bundle a request holds is a full bundle of its type.
C8_NoHalfPopulatedBundle ==
    /\ \A t \in DOMAIN model_cache : FullBundle(t, model_cache[t])
    /\ \A t \in DOMAIN MODEL_CONFIG :
           \A b \in returned[t] : FullBundle(t, b)
    /\ \A w \in Workers :
           pc[w] \in AfterLoad => FullBundle(dataset_type[w], model_components[w])

\* C8 witness: two calls raced through a miss for the same type, and both
\* have returned.
C8_Witness ==
    \E t \in DOMAIN MODEL_CONFIG :
        /\ Cardinality(returned[t]) = 2
        /\ t \in DOMAIN model_cache

\* C9: a successful response has one prediction and one probability per row
\* of the request's batch, num_samples rows, and entry i is the model output
\* for row i.
C9_RowOrderPreserved ==
    \A w \in Workers :
        (Answered(w) /\ response[w].status = 200) =>
            LET n == Len(data[w].rows)
                r == response[w]
            IN  /\ Len(r.predictions) = n
                /\ Len(r.probabilities) = n
                /\ r.num_samples = n
                /\ \A i \in 1..n :
                       /\ r.probabilities[i] = data[w].rows[i]
                       /\ r.predictions[i] =
                              IF 2 * data[w].rows[i] >= ScoreScale THEN 0 ELSE 1

\* C9 witness: a successful response over two rows with different outputs.
C9_Witness ==
    \E w \in Workers :
        /\ Answered(w)
        /\ response[w].status = 200
        /\ data[w].rows = <<0, ScoreScale>>
        /\ response[w].predictions = <<1, 0>>
        /\ "foo_lim_x" \in data[w].columns

\* C10: on the branch for models that yield only a score, the label of every
\* row is 1 exactly when its score is at least one half, and 0 otherwise.
C10_ThresholdConsistency ==
    (/\ dispatch.stage = "returned"
     /\ dispatch.dataset_type \notin {"k2", "kepler"}) =>
        LET r == dispatch
        IN  /\ Len(r.predictions) = Len(r.X_processed)
            /\ Len(r.probabilities) = Len(r.X_processed)
            /\ \A i \in 1..Len(r.predictions) :
                   /\ r.predictions[i] \in {0, 1}
                   /\ r.predictions[i] = 1 <=>
                          2 * r.probabilities[i] >= ScoreScale

\* C10 witness: a response of that branch with a score exactly at one half
\* (label 1) and a score below it (label 0).
C10_Witness ==
    /\ dispatch.stage = "returned"
    /\ dispatch.dataset_type = "tess"
    /\ \E i, j \in 1..Len(dispatch.predictions) :
           /\ 2 * dispatch.probabilities[i] = ScoreScale
           /\ dispatch.predictions[i] = 1
           /\ 2 * dispatch.probabilities[j] < ScoreScale
           /\ dispatch.predictions[j] = 0


\* Positions inside list_models.
ListPhase == {"list_model_exists", "list_preprocessor_exists", "list_cached"}

\* Thread w returns from list_models in this step.
ListReturns(w) == pc[w] = "list_cached" /\ pc'[w] = "done"

\* No step of list_models changes model_cache or the artifact store,
\* deserializes anything or returns a bundle.
ListIsReadOnly(w) ==
    (Acts(w) /\ (pc[w] \in ListPhase \/ pc'[w] \in ListPhase)) =>
        /\ model_cache' = model_cache
        /\ store' = store
        /\ ndeserialized' = ndeserialized
        /\ returned' = returned

\* C11 as stated: list_models leaves model_cache and the artifact store
\* unchanged and triggers no load, and the answer it returns reports, for
\* each registered type, cached = TRUE exactly when the type has an entry in
\* model_cache at that moment.
C11_CachedExactlyCurrent ==
    [][\A w \in Workers :
        /\ ListIsReadOnly(w)
        /\ ListReturns(w) =>
               /\ DOMAIN response'[w].model_status = DOMAIN MODEL_CONFIG
               /\ \A t \in DOMAIN MODEL_CONFIG :
                      response'[w].model_status[t].cached
                          <=> t \in DOMAIN model_cache'
      ]_vars

\* C11 amended: list_models leaves model_cache and the artifact store
\* unchanged and triggers no load; the answer it returns covers exactly the
\* registered types, reports cached = TRUE only for a type that has an entry
\* in model_cache at that moment, and cached = FALSE only for a type that had
\* no entry when the request began (so the report is exact for every type
\* whose entry was not inserted during the request).
C11_ListModelsReadOnly ==
    [][\A w \in Workers :
        /\ ListIsReadOnly(w)
        /\ ListReturns(w) =>
               /\ response'[w].status = 200
               /\ DOMAIN response'[w].model_status = DOMAIN MODEL_CONFIG
               /\ \A t \in DOMAIN MODEL_CONFIG :
                      /\ response'[w].model_status[t].cached
                             => t \in DOMAIN model_cache'
                      /\ ~response'[w].model_status[t].cached
                             => t \notin cached_at_start[w]
                      /\ (t \in cached_at_start[w]
                              \/ t \notin DOMAIN model_cache') =>
                             (response'[w].model_status[t].cached
                                  <=> t \in DOMAIN model_cache')
      ]_vars

\* C11 witness: a listing has been returned that began with an empty cache
\* and reports kepler as not cached although kepler has an entry by now (the
\* entry was inserted during the request, after the read), and that reports
\* k2, which has no entry, as not cached.
C11_Witness ==
    \E w \in Workers :
        /\ pc[w] = "done"
        /\ response[w].route = "/models"
        /\ response[w].status = 200
        /\ cached_at_start[w] = {}
        /\ ~response[w].model_status["kepler"].cached
        /\ ~response[w].model_status["k2"].cached
        /\ DOMAIN model_cache = {"kepler"}

\* Thread w handles a predict request whose data fails batch construction or
\* the empty-batch check.
BadBatchRequest(w) ==
    /\ pc[w] # "idle"
    /\ response[w].route # "/models"
    /\ dataset_type[w] # ""
    /\ data[w].kind # "none"
    /\ data[w].kind = "malformed" \/ Empty(data[w])

\* C12: a request that fails batch construction or the empty-batch check
\* makes no artifact-store access.
C12_BatchBeforeRegistry ==
    \A w \in Workers : BadBatchRequest(w) => nstore[w] = 0


\* C13: model_cache is append-only: no step removes an entry or replaces it
\* by a different bundle.
C13_CacheAppendOnly ==
    [][\A t \in DOMAIN model_cache :
        /\ t \in DOMAIN model_cache'
        /\ model_cache'[t] = model_cache[t]]_vars


\* C14: the unknown-type client error is given only for an unregistered
\* type; for a registered type, a request whose load_model call failed is
\* answered with a server error (status 500), never with a client error.
C14_LoadFailuresAreServerErrors ==
    \A w \in Workers :
        Answered(w) =>
            /\ response[w].error = "Unknown dataset type" =>
                   ~Registered(dataset_type[w])
            /\ (Registered(dataset_type[w]) /\ model_components[w] = NoBundle) =>
                   response[w].status = 500


\* C15: for k2, the batch handed to preprocessor.transform contains neither
\* "disposition" nor "disc_facility".
C15_K2LeakageColumnsDropped ==
    \A w \in Workers :
        (pc[w] = "transform" /\ dataset_type[w] = "k2") =>
            /\ "disposition" \notin df[w].columns
            /\ "disc_facility" \notin df[w].columns


\* C16: a request that stands at column pruning, preprocessing or the model
\* call, or that has been answered with predictions, has a registered
\* dataset_type, and that type is one of the two the dispatch of line 176
\* binds to the classifier convention: the else-branch is never applied.
C16_OnlyRegisteredTypesDispatched ==
    \A w \in Workers :
        (\/ pc[w] \in {"drop_columns", "transform", "invoke_model"}
         \/ /\ pc[w] = "done"
            /\ response[w].route = "/predict"
            /\ response[w].status = 200) =>
            /\ Registered(dataset_type[w])
            /\ dataset_type[w] \in {"k2", "kepler"}

\* C16 witness: one request of an unregistered type has been rejected while
\* another, of a registered type, stands at the model call.
C16_Witness ==
    \E w1, w2 \in Workers :
        /\ pc[w1] = "done"
        /\ dataset_type[w1] = "tess"
        /\ response[w1].error = "Unknown dataset type"
        /\ pc[w2] = "invoke_model"
        /\ dataset_type[w2] = "kepler"

====
